---- MODULE Spec2Model ----
(***************************************************************************)
(* Job lifecycle of the video transcoding API: the submission handler      *)
(* (service/transcode.go newTranscodeJob), the status handler              *)
(* (getTranscodeJob), the asynchronous status-callback loop                *)
(* (statusCallback) and the Elastic Transcoder provider they drive.        *)
(*                                                                         *)
(* Time is the wall clock in seconds.  The environment (the backend, the   *)
(* job store's retention policy, the callback endpoints, the clock) is     *)
(* nondeterministic.                                                       *)
(***************************************************************************)
EXTENDS Integers, Sequences, FiniteSets, TLC

VARIABLES
    cfg,        \* s.config.ElasticTranscoder: the service's live configuration
    jobs,       \* the job store: job ID -> db.Job
    created,    \* number of Job records the store has created (ID generator)
    backend,    \* the transcoding backend: provider job id -> the job as ReadJob
                \* returns it, its status string and those of its outputs
    loops,      \* the statusCallback goroutines: job ID -> goroutine state
    clock,      \* time.Now(), in seconds
    response,   \* the gizmoResponse of the last request served, with its request
    call        \* the call in progress on the Elastic Transcoder provider alone,
                \* with its arguments and its result

vars == <<cfg, jobs, created, backend, loops, clock, response, call>>

---------------------------------------------------------------------------
(* Bounds *)

\* Job records one process run persists.
MaxJobs == 1
\* Outputs of the backend job a statusCallback goroutine follows.
MaxOutputs == 2
\* Characters of a file name, and of a source locator after its scheme.
MaxLen == 4
\* Longest preset list of a submission.
MaxPresets == 2
\* Status queries one statusCallback goroutine issues.
MaxPolls == 3
\* The clock advances in steps of TickHours hours, MaxTicks times.
TickHours == 4
MaxTicks == 3
\* The largest bit rate, in bits per second, tried number by number.
MaxBitrate == 2000

---------------------------------------------------------------------------
(* Program constants *)

SecondsPerHour == 3600

\* const maxJobTimeout = 8 * time.Hour
maxJobTimeout == 8 * SecondsPerHour

\* elastictranscoder.Name
Name == "elastictranscoder"

\* A second registered provider, known only through the provider interface.
OtherName == "other"

Registered == {Name, OtherName}

---------------------------------------------------------------------------
(* Errors.  type is the dynamic Go type, msg identifies the value, cause   *)
(* is the message of the error a fmt.Errorf wraps.                         *)

NoErr == [type |-> "nil", msg |-> "nil", cause |-> "nil"]

ErrorsNew(m) == [type |-> "*errors.errorString", msg |-> m, cause |-> m]

Errorf(m, err) == [type |-> "*errors.errorString", msg |-> m, cause |-> err.cause]

\* db.ErrJobNotFound, db.ErrPresetNotFound
dbErrJobNotFound == ErrorsNew("db.ErrJobNotFound")
dbErrPresetNotFound == ErrorsNew("db.ErrPresetNotFound")

\* provider.ErrPresetNotFound, the value newTranscodeJob compares with
ErrPresetNotFound == ErrorsNew("provider.ErrPresetNotFound")

\* provider.ErrPresetMapNotFound, the value awsProvider.Transcode returns
ErrPresetMapNotFound == ErrorsNew("provider.ErrPresetMapNotFound")

\* var errAWSInvalidConfig = errors.New("invalid Elastic Transcoder config...")
errAWSInvalidConfig == ErrorsNew("errAWSInvalidConfig")

\* provider.InvalidConfigError(msg), provider.JobNotFoundError{...}: values of
\* the named error types the service tests with type assertions
InvalidConfigError(m) == [type |-> "provider.InvalidConfigError", msg |-> m, cause |-> m]
JobNotFoundError(m) == [type |-> "provider.JobNotFoundError", msg |-> m, cause |-> m]

\* err.(provider.InvalidConfigError), err.(provider.JobNotFoundError)
IsInvalidConfigError(err) == err.type = "provider.InvalidConfigError"
IsJobNotFoundError(err) == err.type = "provider.JobNotFoundError"

---------------------------------------------------------------------------
(* Status vocabulary *)

StatusQueued == "queued"
StatusStarted == "started"
StatusFinished == "finished"
StatusFailed == "failed"
StatusCanceled == "canceled"

Statuses == {StatusQueued, StatusStarted, StatusFinished, StatusFailed, StatusCanceled}

\* awsProvider.statusMap
statusMapPassThrough(awsStatus) ==
    CASE awsStatus = "Submitted" -> StatusQueued
      [] awsStatus = "Progressing" -> StatusStarted
      [] awsStatus = "Complete" -> StatusFinished
      [] awsStatus = "Canceled" -> StatusCanceled
      [] OTHER -> awsStatus
statusMap(awsStatus) ==
    CASE awsStatus = "Submitted" -> StatusQueued
      [] awsStatus = "Progressing" -> StatusStarted
      [] awsStatus = "Complete" -> StatusFinished
      [] awsStatus = "Canceled" -> StatusCanceled
      [] OTHER -> StatusFailed

\* Status strings of the backend; "Error" is one the mapping does not name.
BackendStatuses == {"Submitted", "Progressing", "Complete", "Canceled", "Error"}

\* The backend's job with n outputs as CreateJob leaves it.
SubmittedJob(n) == [Status |-> "Submitted", Outputs |-> [k \in 1..n |-> "Submitted"]]

\* The status the backend gives a job with these outputs.
JobStatusOf(outputs) ==
    LET has(st) == \E k \in 1..Len(outputs) : outputs[k] = st IN
    IF has("Error") THEN "Error"
    ELSE IF has("Canceled") THEN "Canceled"
    ELSE IF \A k \in 1..Len(outputs) : outputs[k] = "Complete" THEN "Complete"
    ELSE IF has("Progressing") \/ has("Complete") THEN "Progressing"
    ELSE "Submitted"

\* No call on the provider is in progress.
NoCall == [op |-> "none"]

\* Progress of a JobStatus: completedJobs / float64(totalJobs) * 100, kept as the
\* exact quotient num / den; for no outputs at all the float64 is NaN.
NaN == [num |-> 0, den |-> 0]
NoProgress == [num |-> -1, den |-> 1]

NilStatus ==
    [ProviderName |-> "nil", ProviderJobID |-> 0, Status |-> "nil", Progress |-> NoProgress,
     Destination |-> "nil"]

---------------------------------------------------------------------------
(* Configuration, registry and provider construction *)

\* config.ElasticTranscoder values: every field set, or one of the three
\* fields the factory requires left empty.
Configs ==
    { [AccessKeyID |-> a, SecretAccessKey |-> s, PipelineID |-> p] :
        <<a, s, p>> \in { <<"key", "secret", "pipeline">>, <<"", "secret", "pipeline">>,
                          <<"key", "", "pipeline">>, <<"key", "secret", "">> } }

\* A provider object is represented by its name; NilProvider is the nil interface.
NilProvider == "nil"

\* elasticTranscoderProvider(cfg)
elasticTranscoderProvider(c) ==
    IF c.AccessKeyID = "" \/ c.SecretAccessKey = "" \/ c.PipelineID = ""
    THEN [obj |-> NilProvider, err |-> errAWSInvalidConfig]
    ELSE [obj |-> Name, err |-> NoErr]

\* Factory of the second provider, as the provider interface describes it:
\* construction succeeds, fails with InvalidConfig, or fails otherwise.
otherProviderFactory(fault) ==
    CASE fault = "construct:invalid" ->
            [obj |-> NilProvider, err |-> InvalidConfigError("other: invalid config")]
      [] fault = "construct:other" ->
            [obj |-> NilProvider, err |-> ErrorsNew("other: construction failed")]
      [] OTHER -> [obj |-> OtherName, err |-> NoErr]

\* providerFactory(s.config): the factory registered under name, applied
Construct(name, c, fault) ==
    IF name = Name THEN elasticTranscoderProvider(c) ELSE otherProviderFactory(fault)

\* provider.GetProviderFactory(name)
GetProviderFactory(name) ==
    IF name \in Registered
    THEN [name |-> name, err |-> NoErr]
    ELSE [name |-> "nil", err |-> ErrorsNew("provider.ErrProviderNotFound")]

\* input.ProviderFactory(r.Body): decode the body, then look the provider up
ProviderFactory(input) ==
    IF input.malformed
    THEN [name |-> "nil", err |-> ErrorsNew("json: cannot decode body")]
    ELSE GetProviderFactory(input.Provider)

---------------------------------------------------------------------------
(* Preset store *)

\* The presets on record: P1 is mapped for both providers, P2 has no
\* mapping for Elastic Transcoder; P3 is not on record.
PresetIDs == {"P1", "P2", "P3"}

PresetStore ==
    [id \in {"P1", "P2"} |->
        IF id = "P1"
        THEN [ID |-> id, ProviderMapping |-> [n \in {Name, OtherName} |-> "native-1"]]
        ELSE [ID |-> id, ProviderMapping |-> [n \in {OtherName} |-> "native-2"]]]

NilPreset == [ID |-> "nil", ProviderMapping |-> [n \in {} |-> ""]]

\* s.db.GetPreset(presetID)
GetPreset(presetID, fault) ==
    IF fault = "db:getPreset"
    THEN [preset |-> NilPreset, err |-> ErrorsNew("db: connection lost")]
    ELSE IF presetID \in DOMAIN PresetStore
    THEN [preset |-> PresetStore[presetID], err |-> NoErr]
    ELSE [preset |-> NilPreset, err |-> dbErrPresetNotFound]

---------------------------------------------------------------------------
(* Responses of the service *)

Response(kind, code, err, jobID, status) ==
    [kind |-> kind, code |-> code, err |-> err, jobID |-> jobID, status |-> status]

newInvalidJobResponse(err) == Response("invalidJob", 400, err, 0, NilStatus)
newErrorResponse(err) == Response("genericError", 500, err, 0, NilStatus)
newJobResponse(jobID) == Response("job", 200, NoErr, jobID, NilStatus)
newJobNotFoundResponse(err) == Response("jobNotFound", 404, err, 0, NilStatus)
newJobNotFoundProviderResponse(err) ==
    Response("jobNotFoundInTheProvider", 410, err, 0, NilStatus)
newJobStatusResponse(jobStatus) == Response("jobStatus", 200, NoErr, 0, jobStatus)

NoResponse == Response("none", 0, NoErr, 0, NilStatus)

---------------------------------------------------------------------------
(* Jobs and the job store *)

\* The nil *db.Job
NilJob ==
    [ID |-> -1, ProviderName |-> "nil", ProviderJobID |-> 0, StatusCallbackURL |-> "",
     StatusCallbackInterval |-> 0, CompletionCallbackURL |-> ""]

\* A record left in the store by an earlier deployment, whose provider is no
\* longer registered.
LegacyJob ==
    [ID |-> 0, ProviderName |-> "retired", ProviderJobID |-> 0, StatusCallbackURL |-> "",
     StatusCallbackInterval |-> 0, CompletionCallbackURL |-> ""]

EmptyStore == [id \in {} |-> NilJob]

\* s.db.CreateJob(&job): the store assigns the ID
CreateJob(job, fault) ==
    IF fault = "db:createJob"
    THEN [job |-> job, err |-> ErrorsNew("db: connection lost")]
    ELSE [job |-> [job EXCEPT !.ID = created + 1], err |-> NoErr]

\* s.db.GetJob(jobID)
GetJob(jobID, fault) ==
    IF fault = "db:getJob"
    THEN [job |-> NilJob, err |-> ErrorsNew("db: connection lost")]
    ELSE IF jobID \in DOMAIN jobs
    THEN [job |-> jobs[jobID], err |-> NoErr]
    ELSE [job |-> NilJob, err |-> dbErrJobNotFound]

---------------------------------------------------------------------------
(* Provider.Transcode *)

\* awsProvider.Transcode, the loop over the outputs: the first output that
\* fails decides the error.
RECURSIVE awsTranscodeOutputs(_, _, _)
awsTranscodeOutputs(outputs, i, fault) ==
    IF i > Len(outputs) THEN NoErr
    ELSE IF Name \notin DOMAIN outputs[i].ProviderMapping THEN ErrPresetMapNotFound
    ELSE IF fault = "aws:readPreset" THEN ErrorsNew("aws: ReadPreset failed")
    ELSE IF fault = "aws:misconfigured" THEN ErrorsNew("misconfigured preset")
    ELSE awsTranscodeOutputs(outputs, i + 1, fault)

\* awsProvider.Transcode
awsTranscode(presets, fault) ==
    LET err == awsTranscodeOutputs(presets, 1, fault) IN
    IF err # NoErr THEN [status |-> NilStatus, err |-> err]
    ELSE IF fault = "aws:createJob"
    THEN [status |-> NilStatus, err |-> ErrorsNew("aws: CreateJob failed")]
    ELSE [status |-> [ProviderName |-> Name, ProviderJobID |-> Len(backend) + 1,
                      Status |-> StatusQueued, Progress |-> [num |-> 0, den |-> 1],
                      Destination |-> ""],
          err |-> NoErr]

\* Transcode of the second provider, as the provider interface describes it.
otherTranscode(presets, fault) ==
    CASE fault = "other:presetNotFound" -> [status |-> NilStatus, err |-> ErrPresetNotFound]
      [] fault = "other:transcode" ->
            [status |-> NilStatus, err |-> ErrorsNew("other: backend failure")]
      [] OTHER -> [status |-> [ProviderName |-> OtherName, ProviderJobID |-> Len(backend) + 1,
                               Status |-> StatusQueued, Progress |-> [num |-> 0, den |-> 1],
                               Destination |-> ""],
                   err |-> NoErr]

\* providerObj.Transcode(transcodeProfile)
Transcode(providerObj, presets, fault) ==
    IF providerObj = Name THEN awsTranscode(presets, fault) ELSE otherTranscode(presets, fault)

---------------------------------------------------------------------------
(* POST /jobs: newTranscodeJob *)

\* What one run of the handler did: its response, the Job it persisted, whether it
\* started a statusCallback goroutine, whether the backend accepted a job.
Outcome(resp, job, persisted, started, submitted) ==
    [resp |-> resp, job |-> job, persisted |-> persisted, started |-> started,
     submitted |-> submitted]

Rejected(resp) == Outcome(resp, NilJob, FALSE, FALSE, FALSE)

\* if job.StatusCallbackURL != "" || job.CompletionCallbackURL != ""
startsCallbackBothURLs(job) == job.StatusCallbackURL # "" /\ job.CompletionCallbackURL # ""
startsCallback(job) == job.StatusCallbackURL # "" \/ job.CompletionCallbackURL # ""

\* newTranscodeJob from the db.Job literal to the return
persistJob(input, jobStatus, fault) ==
    LET job == [ID |-> 0,
                ProviderName |-> input.Provider,
                ProviderJobID |-> jobStatus.ProviderJobID,
                StatusCallbackURL |-> input.StatusCallbackURL,
                StatusCallbackInterval |-> input.StatusCallbackInterval,
                CompletionCallbackURL |-> input.CompletionCallbackURL]
        c == CreateJob(job, fault)
    IN  IF c.err # NoErr
        THEN Outcome(newErrorResponse(c.err), NilJob, FALSE, FALSE, TRUE)
        ELSE Outcome(newJobResponse(c.job.ID), c.job, TRUE, startsCallback(c.job), TRUE)

\* newTranscodeJob from the call of Transcode on
submitProfilePersistFirst(input, providerObj, presets, fault) ==
    LET t == Transcode(providerObj, presets, fault)
        p == persistJob(input, t.status, fault)
    IN  IF t.err = ErrPresetNotFound
        THEN [p EXCEPT !.resp = newInvalidJobResponse(t.err), !.submitted = FALSE]
        ELSE IF t.err # NoErr
        THEN [p EXCEPT !.resp = newErrorResponse(Errorf("Error with provider", t.err)),
                       !.submitted = FALSE]
        ELSE p
submitProfile(input, providerObj, presets, fault) ==
    LET t == Transcode(providerObj, presets, fault) IN
    IF t.err = ErrPresetNotFound THEN Rejected(newInvalidJobResponse(t.err))
    ELSE IF t.err # NoErr
    THEN Rejected(newErrorResponse(Errorf("Error with provider", t.err)))
    ELSE persistJob(input, t.status, fault)

\* newTranscodeJob, the loop resolving the presets: the first failure returns
RECURSIVE resolvePresets(_, _, _)
resolvePresets(ids, i, fault) ==
    IF i > Len(ids) THEN [presets |-> <<>>, err |-> NoErr]
    ELSE LET r == GetPreset(ids[i], fault) IN
         IF r.err # NoErr THEN [presets |-> <<>>, err |-> r.err]
         ELSE LET rest == resolvePresets(ids, i + 1, fault) IN
              IF rest.err # NoErr THEN rest
              ELSE [presets |-> <<r.preset>> \o rest.presets, err |-> NoErr]

\* newTranscodeJob
newTranscodeJobOutcome(input, fault) ==
    LET pf == ProviderFactory(input) IN
    IF pf.err # NoErr THEN Rejected(newInvalidJobResponse(pf.err))
    ELSE
    LET po == Construct(pf.name, cfg, fault) IN
    IF po.err # NoErr
    THEN LET formattedErr == Errorf("Error initializing provider for new job", po.err) IN
         IF IsInvalidConfigError(po.err)
         THEN Rejected(newInvalidJobResponse(formattedErr))
         ELSE Rejected(newErrorResponse(formattedErr))
    ELSE
    LET rp == resolvePresets(input.Presets, 1, fault) IN
    IF rp.err # NoErr
    THEN IF rp.err = dbErrPresetNotFound
         THEN Rejected(newInvalidJobResponse(rp.err))
         ELSE Rejected(newErrorResponse(rp.err))
    ELSE submitProfile(input, po.obj, rp.presets, fault)

---------------------------------------------------------------------------
(* GET /jobs/{jobId}: the Job Status Workflow *)

\* awsProvider.JobStatus, the loop over resp.Job.Outputs: completedJobs
RECURSIVE completedJobsOnlyFinished(_, _)
completedJobsOnlyFinished(outputs, i) ==
    IF i > Len(outputs) THEN 0
    ELSE (IF statusMap(outputs[i]) = StatusFinished THEN 1 ELSE 0)
            + completedJobsOnlyFinished(outputs, i + 1)
RECURSIVE completedJobs(_, _)
completedJobs(outputs, i) ==
    IF i > Len(outputs) THEN 0
    ELSE LET outputStatus == statusMap(outputs[i]) IN
         (IF outputStatus \in {StatusFinished, StatusCanceled, StatusFailed} THEN 1 ELSE 0)
            + completedJobs(outputs, i + 1)

\* completedJobs / float64(totalJobs) * 100
ProgressRemaining(completed, totalJobs) ==
    IF totalJobs = 0 THEN NaN ELSE [num |-> (totalJobs - completed) * 100, den |-> totalJobs]
Progress(completed, totalJobs) ==
    IF totalJobs = 0 THEN NaN ELSE [num |-> completed * 100, den |-> totalJobs]

\* awsProvider.getOutputDestination: its ReadPipeline fails when the pipeline
\* cannot be read at all and when this one lookup fails.
getOutputDestination(job, fault) ==
    IF fault \in {"aws:readPipeline", "aws:readPipeline:destination"}
    THEN [destination |-> "", err |-> ErrorsNew("aws: ReadPipeline failed")]
    ELSE [destination |-> "s3://output-bucket/" \o ToString(job.ID), err |-> NoErr]

\* awsProvider.getOutputFiles: ReadPipeline again, then ReadPreset per output
getOutputFiles(fault) ==
    IF fault = "aws:readPipeline" THEN ErrorsNew("aws: ReadPipeline failed")
    ELSE IF fault = "aws:readPreset" THEN ErrorsNew("aws: ReadPreset failed")
    ELSE NoErr

\* awsProvider.JobStatus
awsJobStatusDestinationAborts(job, fault) ==
    IF fault = "aws:readJob" \/ job.ProviderJobID \notin 1..Len(backend)
    THEN [status |-> NilStatus, err |-> ErrorsNew("aws: ReadJob failed")]
    ELSE
    LET awsJob == backend[job.ProviderJobID]
        d == getOutputDestination(job, fault)
        filesErr == getOutputFiles(fault)
    IN  IF d.err # NoErr THEN [status |-> NilStatus, err |-> d.err]
        ELSE IF filesErr # NoErr THEN [status |-> NilStatus, err |-> filesErr]
        ELSE [status |-> [ProviderName |-> "", ProviderJobID |-> job.ProviderJobID,
                          Status |-> statusMap(awsJob.Status),
                          Progress |-> Progress(completedJobs(awsJob.Outputs, 1),
                                                Len(awsJob.Outputs)),
                          Destination |-> d.destination],
              err |-> NoErr]
awsJobStatus(job, fault) ==
    IF fault = "aws:readJob" \/ job.ProviderJobID \notin 1..Len(backend)
    THEN [status |-> NilStatus, err |-> ErrorsNew("aws: ReadJob failed")]
    ELSE
    LET awsJob == backend[job.ProviderJobID]
        d == getOutputDestination(job, fault)
        outputDestination == IF d.err # NoErr THEN d.err.msg ELSE d.destination
        filesErr == getOutputFiles(fault)
    IN  IF filesErr # NoErr THEN [status |-> NilStatus, err |-> filesErr]
        ELSE [status |-> [ProviderName |-> "", ProviderJobID |-> job.ProviderJobID,
                          Status |-> statusMap(awsJob.Status),
                          Progress |-> Progress(completedJobs(awsJob.Outputs, 1),
                                                Len(awsJob.Outputs)),
                          Destination |-> outputDestination],
              err |-> NoErr]

\* JobStatus of the second provider, as the provider interface describes it:
\* a status of the shared vocabulary and a progress between 0 and 100.
otherJobStatus(job, fault) ==
    IF fault = "other:jobNotFound" \/ job.ProviderJobID \notin 1..Len(backend)
    THEN [status |-> NilStatus, err |-> JobNotFoundError("other: job not found")]
    ELSE IF fault = "other:jobStatus"
    THEN [status |-> NilStatus, err |-> ErrorsNew("other: backend failure")]
    ELSE LET b == backend[job.ProviderJobID] IN
         [status |-> [ProviderName |-> "", ProviderJobID |-> job.ProviderJobID,
                      Status |-> statusMap(b.Status),
                      Progress |-> Progress(completedJobs(b.Outputs, 1), Len(b.Outputs)),
                      Destination |-> ""],
          err |-> NoErr]

\* providerObj.JobStatus(job.ProviderJobID)
JobStatus(providerObj, job, fault) ==
    IF providerObj = Name THEN awsJobStatus(job, fault) ELSE otherJobStatus(job, fault)

Lookup(job, jobStatus, providerObj, err) ==
    [job |-> job, jobStatus |-> jobStatus, providerObj |-> providerObj, err |-> err]

\* TranscodingService.getTranscodeJobByID
getTranscodeJobByID(jobID, fault) ==
    LET g == GetJob(jobID, fault) IN
    IF g.err # NoErr
    THEN IF g.err = dbErrJobNotFound
         THEN Lookup(NilJob, NilStatus, NilProvider, g.err)
         ELSE Lookup(NilJob, NilStatus, NilProvider, Errorf("error retrieving job", g.err))
    ELSE
    LET pf == GetProviderFactory(g.job.ProviderName) IN
    IF pf.err # NoErr
    THEN Lookup(g.job, NilStatus, NilProvider, ErrorsNew("unknown provider for job"))
    ELSE
    LET po == Construct(pf.name, cfg, fault) IN
    IF po.err # NoErr
    THEN Lookup(g.job, NilStatus, NilProvider, Errorf("error initializing provider", po.err))
    ELSE
    LET js == JobStatus(po.obj, g.job, fault) IN
    IF js.err # NoErr
    THEN Lookup(g.job, NilStatus, po.obj, js.err)
    ELSE Lookup(g.job, [js.status EXCEPT !.ProviderName = g.job.ProviderName], po.obj, NoErr)

\* TranscodingService.getJobStatusResponse
getJobStatusResponseAnyProviderError(job, jobStatus, providerObj, err) ==
    IF err # NoErr
    THEN IF err = dbErrJobNotFound THEN newJobNotFoundResponse(err)
         ELSE IF providerObj # NilProvider
         THEN newJobNotFoundProviderResponse(
                  Errorf("Error with provider when trying to retrieve job", err))
         ELSE newErrorResponse(err)
    ELSE newJobStatusResponse(jobStatus)
getJobStatusResponse(job, jobStatus, providerObj, err) ==
    IF err # NoErr
    THEN IF err = dbErrJobNotFound THEN newJobNotFoundResponse(err)
         ELSE IF providerObj # NilProvider
         THEN LET providerError ==
                      Errorf("Error with provider when trying to retrieve job", err) IN
              IF IsJobNotFoundError(err)
              THEN newJobNotFoundProviderResponse(providerError)
              ELSE newErrorResponse(providerError)
         ELSE newErrorResponse(err)
    ELSE newJobStatusResponse(jobStatus)

---------------------------------------------------------------------------
(* The Callback Delivery Loop: statusCallback, one goroutine per job *)

\* now.Before(deadline)
BeforeOrAt(now, deadline) == now <= deadline
Before(now, deadline) == now < deadline

\* context.WithTimeout(context.Background(), maxJobTimeout): the context and
\* what its cancel function makes of it.  Cancelling sets the context's error
\* and leaves its deadline.
WithTimeout(now) == [deadline |-> now + maxJobTimeout, err |-> "nil"]
cancel(ctx) == [ctx EXCEPT !.err = "context canceled"]

\* The goroutine as `go s.statusCallback(ctx, job)` starts it and as the
\* return of newTranscodeJob, which runs the deferred cancel(), leaves it:
\*   ctx      the context handed to the goroutine
\*   deadline what ctx.Deadline() returned at the start of statusCallback
\*   pc       head: at the for statement; postStatus, postCompletion: in
\*            postStatusToCallback; sleep: in time.Sleep; done: left by break;
\*            expired: left by the loop condition; panic: nil pointer dereference
\*   via      how the loop came to its head: start, wake (after the sleep),
\*            retry (continue after a failed push)
\*   status   jobStatus.Status of this iteration, "nil" for a nil jobStatus
\*   progress jobStatus.Progress of the last query that returned a status
\*   wake     when time.Sleep returns
\*   polls, statusPosts, completionPosts   calls of getTranscodeJobByID and
\*            successful posts to the two URLs
\*   clean    no query and no push of this run has failed
StartLoop(job, now) ==
    [job |-> job, ctx |-> cancel(WithTimeout(now)), deadline |-> WithTimeout(now).deadline,
     pc |-> "head", via |-> "start",
     status |-> "nil", progress |-> NoProgress, wake |-> 0, polls |-> 0,
     statusPosts |-> 0, completionPosts |-> 0, clean |-> TRUE]

\* time.Sleep(time.Duration(job.StatusCallbackInterval) * time.Second)
SleepNoWait(l, job) == [l EXCEPT !.pc = "sleep", !.wake = clock]
Sleep(l, job) == [l EXCEPT !.pc = "sleep", !.wake = clock + job.StatusCallbackInterval]

\* statusCallback from `if jobStatus.Status != provider.StatusQueued` to the
\* end of the loop body
afterStatusPostNoCompletion(l, job) ==
    IF l.status = "nil" THEN [l EXCEPT !.pc = "panic"]
    ELSE IF l.status # StatusQueued /\ l.status # StatusStarted
    THEN [l EXCEPT !.pc = "done"]
    ELSE Sleep(l, job)
afterStatusPost(l, job) ==
    IF l.status = "nil" THEN [l EXCEPT !.pc = "panic"]
    ELSE IF l.status # StatusQueued /\ l.status # StatusStarted
    THEN IF job.CompletionCallbackURL # ""
         THEN [l EXCEPT !.pc = "postCompletion"]
         ELSE [l EXCEPT !.pc = "done"]
    ELSE Sleep(l, job)

\* statusCallback from the loop condition to the first postStatusToCallback
iterate(l, fault) ==
    IF ~Before(clock, l.deadline) THEN [l EXCEPT !.pc = "expired"]
    ELSE
    LET r == getTranscodeJobByID(l.job.ID, fault)
        q == [l EXCEPT !.polls = @ + 1,
                       !.status = r.jobStatus.Status,
                       !.progress = IF r.err = NoErr THEN r.jobStatus.Progress ELSE @,
                       !.clean = @ /\ r.err = NoErr]
    IN  IF r.job = NilJob THEN [q EXCEPT !.pc = "panic"]
        ELSE IF r.job.StatusCallbackURL # "" THEN [q EXCEPT !.pc = "postStatus"]
        ELSE afterStatusPost(q, r.job)

\* A callback URL http.NewRequest cannot parse.
BadURL == ":unparseable"

\* postStatusToCallback(payload, callbackURL): "ok" when the POST was answered,
\* "err" when client.Do failed.  http.NewRequest's error is not tested: for a
\* URL it cannot parse req is nil and req.Header.Set panics.
postStatusToCallback(callbackURL, ok) ==
    IF callbackURL = BadURL THEN "panic"
    ELSE IF ok THEN "ok" ELSE "err"

\* continue
continue(l) == [l EXCEPT !.pc = "head", !.via = "retry", !.status = "nil", !.clean = FALSE]

\* statusCallback around the post to job.StatusCallbackURL, without the
\* `continue` after a failed post
postStatusFallsThrough(l, ok) ==
    LET posted == postStatusToCallback(l.job.StatusCallbackURL, ok) IN
    IF posted = "panic" THEN [l EXCEPT !.pc = "panic", !.clean = FALSE]
    ELSE IF posted = "err" THEN afterStatusPost([l EXCEPT !.clean = FALSE], l.job)
    ELSE afterStatusPost([l EXCEPT !.statusPosts = @ + 1], l.job)

\* statusCallback around the post to job.StatusCallbackURL
postStatus(l, ok) ==
    LET posted == postStatusToCallback(l.job.StatusCallbackURL, ok) IN
    IF posted = "panic" THEN [l EXCEPT !.pc = "panic", !.clean = FALSE]
    ELSE IF posted = "err" THEN continue(l)
    ELSE afterStatusPost([l EXCEPT !.statusPosts = @ + 1], l.job)

\* statusCallback around the post to job.CompletionCallbackURL
postCompletion(l, ok) ==
    LET posted == postStatusToCallback(l.job.CompletionCallbackURL, ok) IN
    IF posted = "panic" THEN [l EXCEPT !.pc = "panic", !.clean = FALSE]
    ELSE IF posted = "err" THEN continue(l)
    ELSE [l EXCEPT !.completionPosts = @ + 1, !.pc = "done"]

\* the end of time.Sleep and the loop's post statement
wake(l) == [l EXCEPT !.pc = "head", !.via = "wake", !.status = "nil", !.wake = 0]

---------------------------------------------------------------------------
(* Inputs *)

\* Preset lists of a submission: up to MaxPresets distinct presets, in any order.
PresetLists ==
    { ids \in UNION { [1..n -> PresetIDs] : n \in 1..MaxPresets } :
        \A i, k \in 1..Len(ids) : i # k => ids[i] # ids[k] }

\* job.StatusCallbackInterval, in seconds: none, or two steps of the clock.
Intervals == {0, 2 * TickHours * SecondsPerHour}

\* Callback URLs of a submission: none, one that parses, one that does not; at
\* most one of a job's two URLs is unparseable, and a polling interval is given
\* only along with a URL, all of them parseable.
StatusURLs == {"", "http://status", BadURL}
CompletionURLs == {"", "http://completion", BadURL}

Callbacks ==
    { c \in [StatusCallbackURL : StatusURLs, CompletionCallbackURL : CompletionURLs,
             StatusCallbackInterval : Intervals] :
        /\ ~(c.StatusCallbackURL = BadURL /\ c.CompletionCallbackURL = BadURL)
        /\ (c.StatusCallbackURL = "" /\ c.CompletionCallbackURL = "")
                => c.StatusCallbackInterval = 0
        /\ BadURL \in {c.StatusCallbackURL, c.CompletionCallbackURL}
                => c.StatusCallbackInterval = 0 }

Inputs ==
    { in \in [Provider : Registered \cup {"unknown"},
              Presets : PresetLists,
              StatusCallbackURL : StatusURLs,
              CompletionCallbackURL : CompletionURLs,
              StatusCallbackInterval : Intervals,
              malformed : BOOLEAN] :
        /\ [StatusCallbackURL |-> in.StatusCallbackURL,
            CompletionCallbackURL |-> in.CompletionCallbackURL,
            StatusCallbackInterval |-> in.StatusCallbackInterval] \in Callbacks
        /\ (in.malformed \/ in.Provider = "unknown") =>
            /\ in.Presets = <<"P1">>
            /\ in.StatusCallbackURL = "" /\ in.CompletionCallbackURL = ""
        /\ BadURL \in {in.StatusCallbackURL, in.CompletionCallbackURL} =>
            in.Presets = <<"P1">>
        /\ in.malformed => in.Provider = Name }

SubmitFaults ==
    {"none", "construct:invalid", "construct:other", "db:getPreset", "aws:readPreset",
     "aws:misconfigured", "aws:createJob", "other:presetNotFound", "other:transcode",
     "db:createJob"}

QueryFaults ==
    {"none", "construct:invalid", "construct:other", "db:getJob", "aws:readJob",
     "aws:readPipeline", "aws:readPipeline:destination", "aws:readPreset",
     "other:jobNotFound", "other:jobStatus"}

\* A fault can strike only a call the request makes: the backend calls of the
\* provider the request names, and the store's.
Strikes(fault, providerName) ==
    \/ fault \in {"none", "db:getPreset", "db:createJob", "db:getJob"}
    \/ providerName = Name /\ fault \in {"aws:readPreset", "aws:misconfigured", "aws:createJob",
                                          "aws:readJob", "aws:readPipeline",
                                          "aws:readPipeline:destination"}
    \/ providerName = OtherName /\ fault \notin {"aws:readPreset", "aws:misconfigured",
                                                  "aws:createJob", "aws:readJob",
                                                  "aws:readPipeline",
                                                  "aws:readPipeline:destination"}

JobIDs == 0..MaxJobs

---------------------------------------------------------------------------
(* Actions *)

Init ==
    /\ cfg \in Configs
    /\ jobs \in {EmptyStore, [id \in {0} |-> LegacyJob]}
    /\ created = 0
    /\ backend = <<>>
    /\ loops = [id \in {} |-> StartLoop(NilJob, 0)]
    /\ clock = 0
    /\ response = [op |-> "none", resp |-> NoResponse]
    /\ call = NoCall

\* POST /jobs.  The Elastic Transcoder job has one output per preset; the second
\* provider's backend job is followed as a whole, as one output.
newTranscodeJob(input, fault) ==
    LET r == newTranscodeJobOutcome(input, fault) IN
    /\ created < MaxJobs /\ Len(backend) < MaxJobs
    /\ backend' = IF r.submitted
                  THEN Append(backend, SubmittedJob(IF input.Provider = Name
                                                    THEN Len(input.Presets) ELSE 1))
                  ELSE backend
    /\ jobs' = IF r.persisted THEN jobs @@ (r.job.ID :> r.job) ELSE jobs
    /\ created' = IF r.persisted THEN created + 1 ELSE created
    /\ loops' = IF r.started THEN loops @@ (r.job.ID :> StartLoop(r.job, clock)) ELSE loops
    /\ response' = [op |-> "newJob", resp |-> r.resp]
    /\ UNCHANGED <<call, cfg, clock>>

\* GET /jobs/{jobId}
getTranscodeJob(jobID, fault) ==
    LET r == getTranscodeJobByID(jobID, fault) IN
    /\ response' = [op |-> "getJob",
                    resp |-> getJobStatusResponse(r.job, r.jobStatus, r.providerObj, r.err)]
    /\ UNCHANGED <<call, cfg, jobs, created, backend, loops, clock>>

\* One iteration of statusCallback up to its first suspension point.
LoopIterate(id, fault) ==
    /\ loops[id].pc = "head"
    /\ Before(clock, loops[id].deadline) => loops[id].polls < MaxPolls
    /\ loops' = [loops EXCEPT ![id] = iterate(@, fault)]
    /\ UNCHANGED <<call, cfg, jobs, created, backend, clock, response>>

\* The post to the status callback URL returns.
LoopPostStatus(id, ok) ==
    /\ loops[id].pc = "postStatus"
    /\ loops' = [loops EXCEPT ![id] = postStatus(@, ok)]
    /\ UNCHANGED <<call, cfg, jobs, created, backend, clock, response>>

\* The post to the completion callback URL returns, and a goroutine that is
\* done removes its Job record.
LoopPostCompletionRemovesJob(id, ok) ==
    /\ loops[id].pc = "postCompletion"
    /\ loops' = [loops EXCEPT ![id] = postCompletion(@, ok)]
    /\ jobs' = IF loops'[id].pc = "done" THEN [j \in DOMAIN jobs \ {id} |-> jobs[j]] ELSE jobs
    /\ UNCHANGED <<call, cfg, created, backend, clock, response>>

\* The post to the completion callback URL returns.
LoopPostCompletion(id, ok) ==
    /\ loops[id].pc = "postCompletion"
    /\ loops' = [loops EXCEPT ![id] = postCompletion(@, ok)]
    /\ UNCHANGED <<call, cfg, jobs, created, backend, clock, response>>

\* time.Sleep returns.
LoopWake(id) ==
    /\ loops[id].pc = "sleep"
    /\ clock >= loops[id].wake
    /\ loops' = [loops EXCEPT ![id] = wake(@)]
    /\ UNCHANGED <<call, cfg, jobs, created, backend, clock, response>>

\* The backend works on output k of job i; an output that has reached
\* Complete, Canceled or Error stays there.
BackendStep(i, k, to) ==
    /\ \/ backend[i].Outputs[k] = "Submitted" /\ to \in {"Progressing", "Canceled"}
       \/ backend[i].Outputs[k] = "Progressing" /\ to \in {"Complete", "Canceled", "Error"}
    /\ LET outputs == [backend[i].Outputs EXCEPT ![k] = to] IN
       backend' = [backend EXCEPT ![i] = [Status |-> JobStatusOf(outputs), Outputs |-> outputs]]
    /\ UNCHANGED <<call, cfg, jobs, created, loops, clock, response>>

\* The store's retention policy removes a Job record.
Retention(id) ==
    /\ jobs' = [j \in DOMAIN jobs \ {id} |-> jobs[j]]
    /\ UNCHANGED <<call, cfg, created, backend, loops, clock, response>>

\* Time passes: for MaxTicks steps, and for as long as a goroutine is asleep.
Tick ==
    /\ \/ clock < MaxTicks * TickHours * SecondsPerHour
       \/ \E id \in DOMAIN loops : loops[id].pc = "sleep" /\ loops[id].wake > clock
    /\ clock' = clock + TickHours * SecondsPerHour
    /\ UNCHANGED <<call, cfg, jobs, created, backend, loops, response>>

\* The two request handlers and the store's retention policy.
NextService ==
    \/ \E input \in Inputs :
         \E fault \in {f \in SubmitFaults : Strikes(f, input.Provider)} :
            newTranscodeJob(input, fault)
    \/ \E jobID \in JobIDs, fault \in QueryFaults : getTranscodeJob(jobID, fault)
    \/ \E id \in DOMAIN jobs : Retention(id)

\* The statusCallback goroutines and their environment.
NextLoop ==
    \/ \E id \in DOMAIN loops, fault \in QueryFaults : LoopIterate(id, fault)
    \/ \E id \in DOMAIN loops, ok \in BOOLEAN : LoopPostStatus(id, ok)
    \/ \E id \in DOMAIN loops, ok \in BOOLEAN : LoopPostCompletion(id, ok)
    \/ \E id \in DOMAIN loops : LoopWake(id)
    \/ \E i \in 1..Len(backend), to \in BackendStatuses :
         \E k \in 1..Len(backend[i].Outputs) : BackendStep(i, k, to)
    \/ \E id \in DOMAIN jobs : Retention(id)
    \/ Tick

Next == NextService \/ NextLoop

\* The whole service.
Spec == Init /\ [][Next]_vars

\* The request handlers alone.  They read neither the goroutines' state nor the
\* backend's progress, so what holds of them here holds of them in Spec.
SpecService == Init /\ [][NextService]_vars

\* A Job a successful submission has persisted and started a goroutine for.
StartedJobs ==
    { j \in [ID : {1}, ProviderName : Registered, ProviderJobID : {1},
             StatusCallbackURL : StatusURLs,
             StatusCallbackInterval : Intervals,
             CompletionCallbackURL : CompletionURLs] :
        /\ startsCallback(j)
        /\ [StatusCallbackURL |-> j.StatusCallbackURL,
            CompletionCallbackURL |-> j.CompletionCallbackURL,
            StatusCallbackInterval |-> j.StatusCallbackInterval] \in Callbacks }

\* The Job whose backend job is followed with more than one output.
SeveralOutputsJob ==
    [ID |-> 1, ProviderName |-> Name, ProviderJobID |-> 1,
     StatusCallbackURL |-> "http://status", StatusCallbackInterval |-> 0,
     CompletionCallbackURL |-> "http://completion"]

\* The state a first successful submission with a callback URL leaves behind.
InitLoop ==
    /\ cfg = [AccessKeyID |-> "key", SecretAccessKey |-> "secret", PipelineID |-> "pipeline"]
    /\ \E j \in StartedJobs :
        /\ jobs = [id \in {1} |-> j]
        /\ loops = [id \in {1} |-> StartLoop(j, 0)]
        /\ \E n \in 1..MaxOutputs :
            /\ n > 1 => j = SeveralOutputsJob
            /\ backend = <<SubmittedJob(n)>>
    /\ created = 1
    /\ clock = 0
    /\ response = [op |-> "newJob", resp |-> newJobResponse(1)]
    /\ call = NoCall

\* One statusCallback goroutine from its start on.  The handlers change neither
\* its Job record nor its backend job, so what holds of it here holds in Spec.
SpecLoop == InitLoop /\ [][NextLoop]_vars

---------------------------------------------------------------------------
(* Strings of the Elastic Transcoder provider: a string is the sequence of *)
(* its characters.                                                         *)

\* strings.HasPrefix
HasPrefix(str, prefix) ==
    Len(str) >= Len(prefix) /\ SubSeq(str, 1, Len(prefix)) = prefix

\* strings.Index, counting from 1; 0 when substr does not occur
Index(str, substr) ==
    LET at == { i \in 1..(Len(str) - Len(substr) + 1) :
                    SubSeq(str, i, i + Len(substr) - 1) = substr }
    IN  IF at = {} THEN 0 ELSE CHOOSE i \in at : \A k \in at : i <= k

\* strings.Replace(str, old, new, 1)
Replace(str, old, new) ==
    LET i == Index(str, old) IN
    IF i = 0 THEN str
    ELSE SubSeq(str, 1, i - 1) \o new \o SubSeq(str, i + Len(old), Len(str))

\* strings.SplitN(str, sep, 2)
SplitN(str, sep) ==
    LET i == Index(str, sep) IN
    IF i = 0 THEN <<str>>
    ELSE <<SubSeq(str, 1, i - 1), SubSeq(str, i + Len(sep), Len(str))>>

\* strings.Split(str, sep)
RECURSIVE Split(_, _)
Split(str, sep) ==
    LET i == Index(str, sep) IN
    IF i = 0 THEN <<str>>
    ELSE <<SubSeq(str, 1, i - 1)>> \o Split(SubSeq(str, i + Len(sep), Len(str)), sep)

\* var s3Pattern = regexp.MustCompile(`^s3://`)
S3Scheme == <<"s", "3", ":", "/", "/">>
s3Pattern(source) == HasPrefix(source, S3Scheme)

\* awsProvider.normalizeSource
normalizeSourceLastSegment(source) ==
    IF s3Pattern(source)
    THEN LET parts == Split(Replace(source, S3Scheme, <<>>), <<"/">>) IN parts[Len(parts)]
    ELSE source
normalizeSource(source) ==
    IF s3Pattern(source)
    THEN LET parts == SplitN(Replace(source, S3Scheme, <<>>), <<"/">>) IN parts[Len(parts)]
    ELSE source

\* filepath.Ext: the suffix from the last dot of the last element of path
RECURSIVE Ext(_, _)
Ext(path, i) ==
    IF i < 1 \/ path[i] = "/" THEN <<>>
    ELSE IF path[i] = "." THEN SubSeq(path, i, Len(path))
    ELSE Ext(path, i - 1)

\* strings.TrimRight(str, cutset): drops every trailing character of cutset
RECURSIVE TrimRight(_, _)
TrimRight(str, cutset) ==
    IF Len(str) > 0 /\ \E k \in 1..Len(cutset) : cutset[k] = str[Len(str)]
    THEN TrimRight(SubSeq(str, 1, Len(str) - 1), cutset)
    ELSE str

\* awsProvider.outputKey
outputKey(job, fileName, adaptive) ==
    LET name == IF adaptive THEN TrimRight(fileName, Ext(fileName, Len(fileName)))
                ELSE fileName
    IN  job.ID \o <<"/">> \o name

\* strconv.Itoa
Digit(d) == CASE d = 0 -> "0" [] d = 1 -> "1" [] d = 2 -> "2" [] d = 3 -> "3" [] d = 4 -> "4"
              [] d = 5 -> "5" [] d = 6 -> "6" [] d = 7 -> "7" [] d = 8 -> "8" [] d = 9 -> "9"

RECURSIVE Itoa(_)
Itoa(n) ==
    IF n < 0 THEN <<"-">> \o Itoa(-n)
    ELSE IF n < 10 THEN <<Digit(n)>>
    ELSE Itoa(n \div 10) \o <<Digit(n % 10)>>

\* The largest and the smallest int of a 32-bit build (GOARCH 386, arm); on a
\* 64-bit build int has 64 bits and the same holds at 2^63.
MaxInt == 2147483647
MinInt == -MaxInt - 1
MaxIntDigits == Itoa(MaxInt)
\* 2^31, the magnitude of MinInt, in digits.
MinIntMagnitude == <<"2", "1", "4", "7", "4", "8", "3", "6", "4", "8">>
\* The largest uint of the same build, 2^32 - 1, in digits.
MaxUintDigits == <<"4", "2", "9", "4", "9", "6", "7", "2", "9", "5">>

Digits == {"0", "1", "2", "3", "4", "5", "6", "7", "8", "9"}
DigitValue(c) == CHOOSE d \in 0..9 : Digit(d) = c

\* The digits of a numeral without its leading zeros.
RECURSIVE Significant(_)
Significant(digits) ==
    IF Len(digits) > 0 /\ Head(digits) = "0" THEN Significant(Tail(digits)) ELSE digits

\* a < b for two numerals of equal length
RECURSIVE Lexically(_, _)
Lexically(a, b) ==
    /\ Len(a) > 0
    /\ \/ DigitValue(Head(a)) < DigitValue(Head(b))
       \/ Head(a) = Head(b) /\ Lexically(Tail(a), Tail(b))

\* The number a numeral denotes is greater than the number of the numeral limit.
Exceeds(digits, limit) ==
    LET a == Significant(digits)
        b == Significant(limit)
    IN  \/ Len(a) > Len(b)
        \/ Len(a) = Len(b) /\ Lexically(b, a)

\* The number a numeral of at most MaxInt denotes.
RECURSIVE NumeralValue(_)
NumeralValue(digits) ==
    IF digits = <<>> THEN 0
    ELSE 10 * NumeralValue(SubSeq(digits, 1, Len(digits) - 1)) + DigitValue(digits[Len(digits)])

\* strconv.Atoi(str): the int it returns and whether it returns an error.  A
\* string that is not an optional sign and decimal digits gives 0; a number
\* out of the range of int gives the nearest int.
Atoi(str) ==
    LET neg == Len(str) > 0 /\ Head(str) = "-"
        body == IF Len(str) > 0 /\ Head(str) \in {"+", "-"} THEN Tail(str) ELSE str
        invalid == { i \in 1..Len(body) : body[i] \notin Digits }
        \* ParseUint stops at the first byte that is no digit and at the first
        \* digit that takes the number beyond the largest uint
        beyondUint == { i \in 1..Len(body) :
                          /\ \A k \in 1..i : body[k] \in Digits
                          /\ Exceeds(SubSeq(body, 1, i), MaxUintDigits) }
        limit == IF neg THEN MinInt ELSE MaxInt
    IN  IF body = <<>> THEN [n |-> 0, err |-> TRUE]
        ELSE IF invalid # {} /\ \A i \in beyondUint : \E k \in invalid : k < i
        THEN [n |-> 0, err |-> TRUE]
        ELSE IF beyondUint # {} THEN [n |-> limit, err |-> TRUE]
        ELSE IF neg /\ Significant(body) = MinIntMagnitude THEN [n |-> MinInt, err |-> FALSE]
        ELSE IF Exceeds(body, MaxIntDigits) THEN [n |-> limit, err |-> TRUE]
        ELSE [n |-> IF neg THEN -NumeralValue(body) ELSE NumeralValue(body), err |-> FALSE]

\* a / b on ints, b > 0: the quotient truncated toward zero
Quo(a, b) ==
    LET floor == a \div b IN
    IF a < 0 /\ floor * b # a THEN floor + 1 ELSE floor

\* The presets the backend holds, by ID, with their containers, as ReadPreset
\* returns them.
PresetContainers == [presetID \in {"hls-preset", "mp4-preset"} |->
                        IF presetID = "hls-preset" THEN "ts" ELSE "mp4"]

\* awsProvider.Transcode, the loop over transcodeProfile.Outputs: the outputs of
\* the request and the adaptive-streaming outputs met, or the first error.
RECURSIVE transcodeOutputs(_, _, _, _)
transcodeOutputs(job, transcodeProfile, i, fault) ==
    IF i > Len(transcodeProfile.Outputs)
    THEN [Outputs |-> <<>>, adaptiveStreamingOutputs |-> <<>>, err |-> NoErr]
    ELSE
    LET output == transcodeProfile.Outputs[i]
        failed(err) == [Outputs |-> <<>>, adaptiveStreamingOutputs |-> <<>>, err |-> err]
    IN  IF Name \notin DOMAIN output.Preset.ProviderMapping THEN failed(ErrPresetMapNotFound)
        ELSE
        LET presetID == output.Preset.ProviderMapping[Name] IN
        IF fault = "aws:readPreset" THEN failed(ErrorsNew("aws: ReadPreset failed"))
        ELSE IF presetID \notin DOMAIN PresetContainers
        THEN failed(ErrorsNew("misconfigured preset"))
        ELSE
        LET isAdaptiveStreamingPreset == PresetContainers[presetID] = "ts"
            createJobOutput ==
                [PresetId |-> presetID,
                 Key |-> outputKey(job, output.FileName, isAdaptiveStreamingPreset),
                 SegmentDuration |->
                    IF isAdaptiveStreamingPreset
                    THEN Itoa(transcodeProfile.StreamingParams.SegmentDuration)
                    ELSE <<>>]
            rest == transcodeOutputs(job, transcodeProfile, i + 1, fault)
        IN  IF rest.err # NoErr THEN rest
            ELSE [Outputs |-> <<createJobOutput>> \o rest.Outputs,
                  adaptiveStreamingOutputs |->
                    (IF isAdaptiveStreamingPreset THEN <<output>> ELSE <<>>)
                        \o rest.adaptiveStreamingOutputs,
                  err |-> NoErr]

\* awsProvider.Transcode(job, transcodeProfile): the CreateJobInput it sends, the
\* JobStatus it returns and its error
awsTranscodeRequest(job, transcodeProfile, fault) ==
    LET source == normalizeSource(transcodeProfile.SourceMedia)
        o == transcodeOutputs(job, transcodeProfile, 1, fault)
        playlistFileName ==
            TrimRight(transcodeProfile.StreamingParams.PlaylistFileName,
                      Ext(transcodeProfile.StreamingParams.PlaylistFileName,
                          Len(transcodeProfile.StreamingParams.PlaylistFileName)))
        jobPlaylist ==
            [Format |-> "HLSv3",
             Name |-> job.ID \o <<"/">> \o playlistFileName,
             OutputKeys |-> [k \in 1..Len(o.adaptiveStreamingOutputs) |->
                                outputKey(job, o.adaptiveStreamingOutputs[k].FileName, TRUE)]]
        params ==
            [PipelineId |-> cfg.PipelineID,
             Input |-> [Key |-> source],
             Outputs |-> o.Outputs,
             Playlists |-> IF Len(o.adaptiveStreamingOutputs) > 0 THEN <<jobPlaylist>> ELSE <<>>]
        nothingSent == [PipelineId |-> "", Input |-> [Key |-> <<>>], Outputs |-> <<>>,
                        Playlists |-> <<>>]
    IN  IF o.err # NoErr THEN [params |-> nothingSent, status |-> NilStatus, err |-> o.err]
        ELSE IF fault = "aws:createJob"
        THEN [params |-> params, status |-> NilStatus, err |-> ErrorsNew("aws: CreateJob failed")]
        ELSE [params |-> params,
              status |-> [ProviderName |-> Name, ProviderJobID |-> Len(backend) + 1,
                          Status |-> StatusQueued, Progress |-> [num |-> 0, den |-> 1],
                          Destination |-> ""],
              err |-> NoErr]

\* awsProvider.createVideoPreset(preset): the codec and the bit rate of the
\* video parameters (the other parameters do not depend on the bit rate)
createVideoPreset(preset) ==
    LET normalizedVideoBitRate == Atoi(preset.Video.Bitrate).n IN
    [Codec |-> IF preset.Video.Codec = "h264" THEN "H.264" ELSE preset.Video.Codec,
     BitRate |-> Itoa(Quo(normalizedVideoBitRate, 1000))]

\* awsProvider.createAudioPreset(preset)
createAudioPreset(preset) ==
    LET normalizedAudioBitRate == Atoi(preset.Audio.Bitrate).n IN
    [Codec |-> IF preset.Audio.Codec = "aac" THEN "AAC" ELSE preset.Audio.Codec,
     Channels |-> "auto",
     SampleRate |-> "auto",
     BitRate |-> Itoa(Quo(normalizedAudioBitRate, 1000))]

\* awsProvider.CreatePreset(preset): the CreatePresetInput it sends, and the
\* preset ID and the error it returns
awsCreatePreset(preset, fault) ==
    LET presetInput ==
            [Name |-> preset.Name,
             Container |-> IF preset.Container = "m3u8" THEN "ts" ELSE preset.Container,
             Video |-> createVideoPreset(preset),
             Audio |-> createAudioPreset(preset)]
    IN  IF fault = "aws:createPreset"
        THEN [presetInput |-> presetInput, id |-> "", err |-> ErrorsNew("aws: CreatePreset failed")]
        ELSE [presetInput |-> presetInput, id |-> "created-preset", err |-> NoErr]

---------------------------------------------------------------------------
(* The Elastic Transcoder provider called on its own *)

\* Status strings a backend can send: those of BackendStatuses, the empty
\* string, and strings the provider has never seen.
StatusStrings == BackendStatuses \cup {"", "complete", "Warning"}

\* What can fail in one JobStatus call.
JobStatusFaults ==
    {"none", "aws:readJob", "aws:readPipeline", "aws:readPipeline:destination",
     "aws:readPreset"}

\* p.statusMap(awsStatus)
StatusMapCall(awsStatus) ==
    /\ call = NoCall
    /\ call' = [op |-> "statusMap", awsStatus |-> awsStatus, out |-> statusMap(awsStatus)]
    /\ UNCHANGED <<cfg, jobs, created, backend, loops, clock, response>>

\* p.JobStatus(job)
JobStatusCall(id, fault) ==
    /\ call = NoCall
    /\ call' = [op |-> "JobStatus", job |-> jobs[id], fault |-> fault,
                awsJob |-> backend[jobs[id].ProviderJobID],
                out |-> awsJobStatus(jobs[id], fault)]
    /\ UNCHANGED <<cfg, jobs, created, backend, loops, clock, response>>

\* The db.Job the provider's methods are given; its ID is a string here.
AdapterJob == [ID |-> <<"7">>]

\* Source locators: with the s3:// scheme, with part of it, with the scheme
\* inside, and bare keys; what follows has up to MaxLen characters.
RECURSIVE Strings(_, _)
Strings(chars, n) ==
    IF n = 0 THEN {<<>>}
    ELSE LET shorter == Strings(chars, n - 1) IN
         shorter \cup { str \o <<c>> : str \in shorter, c \in chars }

Sources ==
    { prefix \o rest :
        prefix \in {<<>>, S3Scheme, <<"s", "3", ":", "/">>, <<"k">> \o S3Scheme},
        rest \in Strings({"b", "k", "/"}, MaxLen) }

\* File names of up to MaxLen characters: path elements separated by "/", each
\* a name with dots inside it.
FileNames ==
    { name \in Strings({"a", "m", ".", "/"}, MaxLen) \ {<<>>} :
        /\ name[1] \notin {".", "/"} /\ name[Len(name)] \notin {".", "/"}
        /\ \A i \in 1..(Len(name) - 1) :
            ~(name[i] \in {".", "/"} /\ name[i + 1] \in {".", "/"}) }

\* File names of the outputs and of the playlist of a whole request.
SampleNames == {<<"a", ".", "m">>, <<"a", "m", ".", "m">>, <<"a", "/", "m">>}

\* Outputs of a request: a file name and a preset mapped to an adaptive-
\* streaming preset of the backend, to a plain one, or not mapped at all.
TranscodeOutputs ==
    [FileName : SampleNames,
     Preset : { [ProviderMapping |-> [n \in {Name} |-> "hls-preset"]],
                [ProviderMapping |-> [n \in {Name} |-> "mp4-preset"]],
                [ProviderMapping |-> [n \in {OtherName} |-> "native-2"]] }]

TranscodeProfiles ==
    [SourceMedia : {S3Scheme \o <<"b", "/", "k">>},
     Outputs : UNION { [1..n -> TranscodeOutputs] : n \in 1..MaxOutputs },
     StreamingParams : [PlaylistFileName : SampleNames, SegmentDuration : {10}]]

\* What can fail in one Transcode call.
TranscodeFaults == {"none", "aws:readPreset", "aws:createJob"}

\* p.Transcode(job, transcodeProfile)
TranscodeCall(transcodeProfile, fault) ==
    /\ call = NoCall
    /\ call' = [op |-> "Transcode", job |-> AdapterJob, transcodeProfile |-> transcodeProfile,
                fault |-> fault,
                out |-> awsTranscodeRequest(AdapterJob, transcodeProfile, fault)]
    /\ UNCHANGED <<cfg, jobs, created, backend, loops, clock, response>>

\* Bit rates of a preset, as the strings the preset carries: every number up
\* to MaxBitrate in decimal, the largest int and the numbers around it, a
\* negative number, a signed one, one with a leading zero, and strings that
\* are no numbers.
Bitrates ==
    { Itoa(b) : b \in 0..MaxBitrate }
        \cup { MaxIntDigits, MinIntMagnitude,
               <<"2", "1", "4", "7", "4", "8", "4", "6", "4", "7">>,
               <<"-", "1", "9", "9", "9">>, <<"+", "1", "9", "9", "9">>,
               <<"0", "1", "9", "9", "9">>, <<"1", "k">>, <<>> }

\* Presets to create: one of the two bit rates varies, the other is 128000.
Presets ==
    LET fixed == <<"1", "2", "8", "0", "0", "0">>
        preset(video, audio) ==
            [Name |-> "preset", Container |-> "m3u8",
             Video |-> [Codec |-> "h264", Bitrate |-> video],
             Audio |-> [Codec |-> "aac", Bitrate |-> audio]]
    IN  { preset(b, fixed) : b \in Bitrates } \cup { preset(fixed, b) : b \in Bitrates }

\* p.CreatePreset(preset)
CreatePresetCall(preset, fault) ==
    /\ call = NoCall
    /\ call' = [op |-> "CreatePreset", preset |-> preset, fault |-> fault,
                out |-> awsCreatePreset(preset, fault)]
    /\ UNCHANGED <<cfg, jobs, created, backend, loops, clock, response>>

\* p.normalizeSource(source)
NormalizeSourceCall(source) ==
    /\ call = NoCall
    /\ call' = [op |-> "normalizeSource", source |-> source, out |-> normalizeSource(source)]
    /\ UNCHANGED <<cfg, jobs, created, backend, loops, clock, response>>

\* p.outputKey(job, fileName, adaptive)
OutputKeyCall(fileName, adaptive) ==
    /\ call = NoCall
    /\ call' = [op |-> "outputKey", job |-> AdapterJob, fileName |-> fileName,
                adaptive |-> adaptive, out |-> outputKey(AdapterJob, fileName, adaptive)]
    /\ UNCHANGED <<cfg, jobs, created, backend, loops, clock, response>>

\* The call returns to its caller.
Return ==
    /\ call # NoCall
    /\ call' = NoCall
    /\ UNCHANGED <<cfg, jobs, created, backend, loops, clock, response>>

NextAdapter ==
    \/ \E awsStatus \in StatusStrings : StatusMapCall(awsStatus)
    \/ \E source \in Sources : NormalizeSourceCall(source)
    \/ \E fileName \in FileNames, adaptive \in BOOLEAN : OutputKeyCall(fileName, adaptive)
    \/ \E transcodeProfile \in TranscodeProfiles, fault \in TranscodeFaults :
         TranscodeCall(transcodeProfile, fault)
    \/ \E id \in DOMAIN jobs, fault \in JobStatusFaults : JobStatusCall(id, fault)
    \/ Return
    \/ \E i \in 1..Len(backend), to \in BackendStatuses :
         \E k \in 1..Len(backend[i].Outputs) : call = NoCall /\ BackendStep(i, k, to)

\* A provider with a valid configuration and one job on the backend.
InitAdapter ==
    /\ cfg = [AccessKeyID |-> "key", SecretAccessKey |-> "secret", PipelineID |-> "pipeline"]
    /\ jobs = [id \in {1} |-> SeveralOutputsJob]
    /\ created = 1
    /\ \E n \in 1..MaxOutputs : backend = <<SubmittedJob(n)>>
    /\ loops = [id \in {} |-> StartLoop(NilJob, 0)]
    /\ clock = 0
    /\ response = [op |-> "none", resp |-> NoResponse]
    /\ call = NoCall

\* The provider's methods, called in any order while the backend works.
SpecAdapter == InitAdapter /\ [][NextAdapter]_vars

\* The provider creating presets, one call at a time.  CreatePreset reads no
\* state of the provider, so what holds of it here holds in SpecAdapter.
NextPresets ==
    \/ \E preset \in Presets, fault \in {"none", "aws:createPreset"} :
         CreatePresetCall(preset, fault)
    \/ Return

SpecPresets == InitAdapter /\ [][NextPresets]_vars

\* The goroutine's own steps.
LoopStep ==
    \/ \E id \in DOMAIN loops, fault \in QueryFaults : LoopIterate(id, fault)
    \/ \E id \in DOMAIN loops, ok \in BOOLEAN : LoopPostStatus(id, ok)
    \/ \E id \in DOMAIN loops, ok \in BOOLEAN : LoopPostCompletion(id, ok)
    \/ \E id \in DOMAIN loops : LoopWake(id)

\* SpecLoop under the scheduling the runtime gives: a goroutine that can take a
\* step takes one (getTranscodeJobByID returns, the HTTP client of
\* postStatusToCallback gives up after its 5 second timeout, time.Sleep
\* returns), and time passes.
SpecLoopFair == SpecLoop /\ WF_vars(LoopStep) /\ WF_vars(Tick)

---------------------------------------------------------------------------
(* Properties of the submission and status handlers, checked under SpecService *)

Submitted == response.op = "newJob"
Queried == response.op = "getJob"

\* C1: a submission to the elastictranscoder provider in which Transcode meets a
\* preset without a ProviderMapping entry for it is answered with the client
\* error (invalid job, 400), never with a server error.
C1_PresetMapNotFoundIsClientError ==
    (Submitted /\ response.resp.err.cause = ErrPresetMapNotFound.msg) =>
        response.resp.kind = "invalidJob" /\ response.resp.code = 400

\* C2: a step persists a Job or starts a goroutine only if it is a submission
\* that answers with success, after the backend has accepted the job; it then
\* persists exactly that one Job and starts no goroutine but that Job's.  A
\* submission that answers with an error changes neither store nor goroutines.
C2_JobPersistedOnlyOnSuccess ==
    [][ /\ (created' # created \/ DOMAIN jobs' \ DOMAIN jobs # {} \/ DOMAIN loops' # DOMAIN loops)
            => /\ response'.op = "newJob" /\ response'.resp.kind = "job"
               /\ created' = created + 1
               /\ Len(backend') = Len(backend) + 1
               /\ DOMAIN jobs' \ DOMAIN jobs = {response'.resp.jobID}
               /\ DOMAIN loops' \ DOMAIN loops \subseteq {response'.resp.jobID}
               /\ DOMAIN loops \subseteq DOMAIN loops'
        /\ (response' # response /\ response'.op = "newJob" /\ response'.resp.kind = "job")
            => Cardinality(DOMAIN jobs' \ DOMAIN jobs) = 1
        /\ (response' # response /\ response'.op = "newJob" /\ response'.resp.kind # "job")
            => jobs' = jobs /\ loops' = loops /\ created' = created
      ]_vars

\* C2 witness: a submission failed in Transcode for want of a preset mapping and
\* left the store and the goroutines empty.
C2_Witness ==
    /\ Submitted /\ response.resp.err.cause = ErrPresetMapNotFound.msg
    /\ created = 0 /\ DOMAIN loops = {} /\ DOMAIN jobs \subseteq {0}

\* Where the errors of the status workflow come from.
RecordMissing == {dbErrJobNotFound.msg}
BackendLostJob == {"other: job not found"}
OtherFailures ==
    {"unknown provider for job", "errAWSInvalidConfig", "other: invalid config",
     "other: construction failed", "aws: ReadJob failed", "aws: ReadPipeline failed",
     "aws: ReadPreset failed", "other: backend failure", "db: connection lost"}

\* C3: the status workflow answers a missing Job record with 404, a backend
\* that reports JobNotFound for an existing record with 410, an unregistered
\* provider, a construction failure and every other backend or store error
\* with the generic 500, and only a successful backend query with the status.
C3_StatusWorkflowClassifies ==
    Queried =>
        LET r == response.resp
            c == r.err.cause
        IN  /\ c \in RecordMissing \cup BackendLostJob \cup OtherFailures \cup {NoErr.cause}
            /\ c \in RecordMissing <=> (r.kind = "jobNotFound" /\ r.code = 404)
            /\ c \in BackendLostJob <=> (r.kind = "jobNotFoundInTheProvider" /\ r.code = 410)
            /\ c \in OtherFailures <=> (r.kind = "genericError" /\ r.code = 500)
            /\ r.err = NoErr <=> (r.kind = "jobStatus" /\ r.code = 200)
            /\ r.kind = "jobStatus" => r.status.Status \in Statuses

\* C3 witness: the backend has lost a job whose record exists: 410.
C3_Witness ==
    /\ Queried /\ response.resp.code = 410
    /\ \E id \in DOMAIN jobs : jobs[id].ProviderName = OtherName

\* C4: a submission whose provider construction fails with the InvalidConfig
\* condition (the Elastic Transcoder factory's errAWSInvalidConfig included) is
\* answered with the client error; any other construction failure with the
\* server error.
C4_InvalidConfigIsClientError ==
    Submitted =>
        /\ response.resp.err.cause \in {errAWSInvalidConfig.msg, "other: invalid config"}
            => response.resp.kind = "invalidJob"
        /\ response.resp.err.cause = "other: construction failed"
            => response.resp.kind = "genericError"

\* C10: a successful submission starts a goroutine for the Job it persisted if
\* and only if one of the two callback URLs is not empty, and it answers while
\* that goroutine has not yet made a query or a post and the backend job is
\* still only submitted.
C10_LoopStartedIffCallbackURL ==
    [][ (response' # response /\ response'.op = "newJob" /\ response'.resp.kind = "job")
            => LET id == response'.resp.jobID IN
               /\ id \in DOMAIN jobs' \ DOMAIN jobs
               /\ id \in DOMAIN loops'
                    <=> (jobs'[id].StatusCallbackURL # "" \/ jobs'[id].CompletionCallbackURL # "")
               /\ id \in DOMAIN loops'
                    => /\ id \notin DOMAIN loops
                       /\ loops'[id] = StartLoop(jobs'[id], clock)
                       /\ loops'[id].pc = "head" /\ loops'[id].polls = 0
                       /\ backend'[jobs'[id].ProviderJobID].Status = "Submitted"
      ]_vars

\* C10 witness: a Job with only a completion callback URL has been answered
\* with success and its goroutine stands at its start.
C10_Witness ==
    /\ Submitted /\ response.resp.kind = "job"
    /\ response.resp.jobID \in DOMAIN jobs
    /\ jobs[response.resp.jobID].StatusCallbackURL = ""
    /\ jobs[response.resp.jobID].CompletionCallbackURL # ""
    /\ response.resp.jobID \in DOMAIN loops
    /\ loops[response.resp.jobID].pc = "head" /\ loops[response.resp.jobID].polls = 0

---------------------------------------------------------------------------
(* Properties of the statusCallback goroutine, checked under SpecLoop *)

NonTerminal == {StatusQueued, StatusStarted}
Terminal == {StatusFinished, StatusFailed, StatusCanceled}

\* The goroutine is in postStatusToCallback or in time.Sleep.
Suspended(l) ==
    \/ l.pc \in {"postStatus", "postCompletion"}
    \/ l.pc = "sleep" /\ l.wake > clock

C6_OnePostPerPollOneCompletion ==
    /\ [](\A id \in DOMAIN loops :
            LET l == loops[id] IN
            (l.clean /\ l.job.StatusCallbackURL # "" /\ l.job.CompletionCallbackURL # "")
                => /\ l.pc = "done"
                        => /\ l.statusPosts = l.polls /\ l.completionPosts = 1
                           /\ l.status \in Terminal
                   /\ l.pc = "postCompletion"
                        => /\ l.statusPosts = l.polls /\ l.completionPosts = 0
                           /\ l.status \in Terminal
                   /\ l.pc = "sleep"
                        => /\ l.statusPosts = l.polls /\ l.completionPosts = 0
                           /\ l.status \in NonTerminal
                   /\ l.pc = "postStatus"
                        => l.statusPosts = l.polls - 1 /\ l.completionPosts = 0
                   /\ l.pc \in {"head", "expired"}
                        => l.statusPosts = l.polls /\ l.completionPosts = 0
                   /\ l.pc # "panic")
    /\ [][ \A id \in DOMAIN loops : loops[id].pc = "done" => loops'[id] = loops[id] ]_vars

\* C6 witness: the third poll saw Finished: three status posts, one completion post.
C6_Witness ==
    \E id \in DOMAIN loops :
        LET l == loops[id] IN
        /\ l.clean /\ l.job.StatusCallbackURL # "" /\ l.job.CompletionCallbackURL # ""
        /\ l.pc = "done" /\ l.status = StatusFinished
        /\ l.polls = 3 /\ l.statusPosts = 3 /\ l.completionPosts = 1

\* C7: a failed status query does not crash the goroutine.
C7_QueryFailureDoesNotCrash ==
    \A id \in DOMAIN loops : loops[id].pc # "panic"

\* C8: a push that does not succeed leaves the loop at its head, and unless
\* the deadline has passed the loop's next step is a query followed by another
\* push attempt.
C8_FailedPushIsRetried ==
    [][ \A id \in DOMAIN loops :
            LET l == loops[id]
                n == loops'[id]
            IN  /\ (l.pc = "postStatus" /\ n # l /\ n.statusPosts = l.statusPosts)
                    => n.pc = "head" /\ n.via = "retry"
                /\ (l.pc = "postCompletion" /\ n # l /\ n.completionPosts = l.completionPosts)
                    => n.pc = "head" /\ n.via = "retry"
                /\ (l.pc = "head" /\ l.via = "retry" /\ n # l)
                    => \/ n.pc = "expired" /\ clock >= l.deadline
                       \/ n.pc \in {"postStatus", "postCompletion"} /\ n.polls = l.polls + 1
      ]_vars

\* C9 as stated: after an iteration that observed a non-terminal status the
\* loop comes back to its head only out of the interval sleep.
C9_SleepsAfterEveryNonTerminalObservation ==
    [][ \A id \in DOMAIN loops :
            (loops[id].status \in NonTerminal /\ loops[id].pc # "head" /\ loops'[id].pc = "head")
                => loops[id].pc = "sleep"
      ]_vars

\* C9 amended: an iteration that observed a non-terminal status and whose
\* status push did not fail (or that had no status URL to push to) sleeps for
\* job.StatusCallbackInterval seconds before the loop is back at its head; only a
\* failed status push brings the loop back without the sleep.
C9_SleepsUnlessStatusPushFailed ==
    [][ \A id \in DOMAIN loops :
            LET l == loops[id]
                n == loops'[id]
            IN  /\ (l.status \in NonTerminal /\ l.pc # "head" /\ n.pc = "head")
                    => \/ l.pc = "sleep" /\ clock >= l.wake
                       \/ l.pc = "postStatus" /\ n.via = "retry" /\ n.statusPosts = l.statusPosts
                /\ (l.pc # "sleep" /\ n.pc = "sleep")
                    => /\ n.status \in NonTerminal
                       /\ n.wake = clock + l.job.StatusCallbackInterval
                /\ (l.pc = "postStatus" /\ l.status \in NonTerminal
                        /\ n.statusPosts = l.statusPosts + 1)
                    => n.pc = "sleep"
                /\ (l.pc = "head" /\ n.polls = l.polls + 1 /\ n.status \in NonTerminal
                        /\ l.job.StatusCallbackURL = "")
                    => n.pc = "sleep"
      ]_vars

\* C9 witness: a status post of a Queued status succeeded and the loop sleeps
\* for the interval of the Job.
C9_Witness ==
    \E id \in DOMAIN loops :
        LET l == loops[id] IN
        /\ l.pc = "sleep" /\ l.status = StatusQueued /\ l.statusPosts = l.polls
        /\ l.job.StatusCallbackInterval > 0 /\ l.wake = clock + l.job.StatusCallbackInterval

\* The goroutine has left statusCallback through break or the loop condition.
Exited(l) == l.pc \in {"done", "expired"}

\* C11: every run of the loop ends: it leaves through break after observing a
\* terminal status (and, for a Job with a completion callback URL, after a
\* post to it), or through the loop condition once the deadline has passed;
\* after it has left it makes no query and no post.
C11_LoopTerminates ==
    /\ <>(\A id \in DOMAIN loops : Exited(loops[id]))
    /\ [](\A id \in DOMAIN loops :
            LET l == loops[id] IN
            /\ l.pc = "done"
                => /\ l.status \in Terminal
                   /\ l.job.CompletionCallbackURL # "" => l.completionPosts = 1
            /\ l.pc = "expired" => clock >= l.deadline)
    /\ [][ \A id \in DOMAIN loops : Exited(loops[id]) => loops'[id] = loops[id] ]_vars

\* C13: in one run of the loop for an Elastic Transcoder job, a query that
\* returns a status never reports a lower progress than the query before it.
C13_ProgressNeverRegresses ==
    [][ \A id \in DOMAIN loops :
            LET l == loops[id]
                n == loops'[id]
            IN  (/\ l.job.ProviderName = Name
                 /\ n.polls = l.polls + 1 /\ n.status # "nil"
                 /\ l.progress # NoProgress)
                    => /\ n.progress.den > 0 /\ l.progress.den > 0
                       /\ n.progress.num * l.progress.den >= l.progress.num * n.progress.den
      ]_vars

\* C13 witness: the third query of a run for a job with two outputs, made after
\* both outputs had ended, reported 100.
C13_Witness ==
    \E id \in DOMAIN loops :
        LET l == loops[id] IN
        /\ l.job.ProviderName = Name /\ l.polls = 3 /\ l.pc = "postStatus"
        /\ l.progress = [num |-> 200, den |-> 2]
        /\ backend[l.job.ProviderJobID].Outputs = <<"Complete", "Canceled">>


\* C19: the callback loop never writes persistent state: every step of a
\* statusCallback goroutine (a status query, a post to either callback URL, a
\* retry after a failed post, a wake-up) leaves the stored Job records and the
\* store's ID counter as they were.
C19_LoopOnlyReads ==
    [][loops' # loops => jobs' = jobs /\ created' = created]_vars

\* C19 witness: a goroutine has queried twice, has met a failed query or a
\* failed post, has posted a status, and its Job record is still as stored at
\* submission.
C19_Witness ==
    /\ loops[1].polls >= 2
    /\ ~loops[1].clean
    /\ loops[1].statusPosts >= 1
    /\ 1 \in DOMAIN jobs
    /\ jobs[1] = loops[1].job
    /\ created = 1


\* C21: for a Job with a status callback URL, the goroutine comes to post to
\* the completion URL only straight from a status post that succeeded; a
\* status post that fails is followed by no completion post but by the head
\* of the loop (or by the crash of the goroutine), and so is a completion post
\* that fails; from the head the goroutine goes on only by a new query, which
\* leads to the status post and never straight to the completion post.
C21_CompletionOnlyAfterStatusPush ==
    [][ \A id \in DOMAIN loops :
            LET l == loops[id]
                n == loops'[id]
            IN  l.job.StatusCallbackURL # ""
                    => /\ (n.pc = "postCompletion" /\ l.pc # "postCompletion")
                            => /\ l.pc = "postStatus"
                               /\ n.statusPosts = l.statusPosts + 1
                               /\ l.status \in Terminal
                       /\ n.completionPosts # l.completionPosts
                            => l.pc = "postCompletion" /\ n.pc = "done"
                       /\ (l.pc = "postStatus" /\ n # l /\ n.statusPosts = l.statusPosts)
                            => /\ n.pc \in {"head", "panic"}
                               /\ n.completionPosts = l.completionPosts
                       /\ (l.pc = "postCompletion" /\ n # l /\ n.completionPosts = l.completionPosts)
                            => n.pc \in {"head", "panic"}
                       /\ (l.pc = "head" /\ n # l)
                            => \/ n.pc = "expired"
                               \/ n.pc \in {"postStatus", "panic"} /\ n.polls = l.polls + 1
      ]_vars

\* C21 witness: the goroutine is about to post to the completion URL for the
\* second time or after a failed status post: it is there by a retry, on its
\* third query, with two status posts made and no completion post yet.
C21_Witness ==
    /\ loops[1].pc = "postCompletion"
    /\ loops[1].via = "retry"
    /\ loops[1].polls = 3
    /\ loops[1].statusPosts = 2
    /\ loops[1].completionPosts = 0
    /\ loops[1].status \in Terminal


\* The goroutine has stopped.
Stopped(l) == l.pc \notin {"head", "postStatus", "postCompletion", "sleep"}

\* C22: the context of every goroutine is cancelled by the return of the
\* submission, and a goroutine stops all the same only after it has observed a
\* terminal status or when the deadline has passed.
C22_CancelDoesNotStopLoop ==
    \A id \in DOMAIN loops :
        LET l == loops[id] IN
        /\ l.ctx.err = "context canceled"
        /\ Stopped(l)
                => \/ l.pc = "done" /\ l.status \in Terminal
                   \/ l.pc = "expired" /\ ~Before(clock, l.deadline)

---------------------------------------------------------------------------
(* Properties of the Elastic Transcoder provider, checked under SpecAdapter *)

\* C12: statusMap sends Submitted, Progressing, Complete and Canceled to
\* Queued, Started, Finished and Canceled and every other string, the empty
\* one included, to Failed; every JobStatus the provider returns carries one of
\* the five statuses.
C12_StatusMapIsTotal ==
    /\ call.op = "statusMap"
        => /\ call.out \in Statuses
           /\ call.awsStatus = "Submitted" => call.out = StatusQueued
           /\ call.awsStatus = "Progressing" => call.out = StatusStarted
           /\ call.awsStatus = "Complete" => call.out = StatusFinished
           /\ call.awsStatus = "Canceled" => call.out = StatusCanceled
           /\ call.awsStatus \notin {"Submitted", "Progressing", "Complete", "Canceled"}
                => call.out = StatusFailed
    /\ (call.op = "JobStatus" /\ call.out.err = NoErr)
        => /\ call.out.status.Status \in Statuses
           /\ call.awsJob.Status = "Error" => call.out.status.Status = StatusFailed

\* C12 witness: the empty string was mapped to Failed.
C12_Witness ==
    call.op = "statusMap" /\ call.awsStatus = "" /\ call.out = StatusFailed

\* Outputs of a backend job whose mapped status is Finished, Canceled or Failed.
CompletedOutputs(outputs) ==
    { k \in 1..Len(outputs) :
        statusMap(outputs[k]) \in {StatusFinished, StatusCanceled, StatusFailed} }

\* C14: for a backend job with at least one output JobStatus reports the
\* progress completed / total * 100, completed counting the outputs whose mapped
\* status is Finished, Canceled or Failed, a value from 0 to 100; for the outputs
\* Complete, Complete it reports progress 100 and the status Finished.
C14_ProgressIsCompletedShare ==
    (call.op = "JobStatus" /\ call.out.err = NoErr /\ Len(call.awsJob.Outputs) > 0)
        => LET outputs == call.awsJob.Outputs
               p == call.out.status.Progress
           IN  /\ p.den > 0
               /\ p.num * Len(outputs) = 100 * Cardinality(CompletedOutputs(outputs)) * p.den
               /\ 0 <= p.num /\ p.num <= 100 * p.den
               /\ outputs = <<"Complete", "Complete">>
                    => p.num = 100 * p.den /\ call.out.status.Status = StatusFinished

\* C14 witness: JobStatus of a job whose two outputs are Complete.
C14_Witness ==
    /\ call.op = "JobStatus" /\ call.out.err = NoErr
    /\ call.awsJob.Outputs = <<"Complete", "Complete">>
    /\ call.out.status.Progress = [num |-> 200, den |-> 2]
    /\ call.out.status.Status = StatusFinished

\* The ReadPipeline of getOutputDestination failed in the last call.
DestinationLookupFailed ==
    call.op = "JobStatus" /\ getOutputDestination(call.job, call.fault).err # NoErr

\* C18 as stated: whenever the pipeline lookup of getOutputDestination fails,
\* JobStatus returns a status and no error, and the status carries the error
\* text as its destination.
C18_DestinationFailureNeverAborts ==
    (DestinationLookupFailed /\ call.fault # "aws:readJob")
        => /\ call.out.err = NoErr
           /\ call.out.status.Destination = "aws: ReadPipeline failed"

\* C18 amended: a failed pipeline lookup of getOutputDestination does not by
\* itself abort JobStatus: if the lookups of getOutputFiles succeed, JobStatus
\* returns a status and no error, with the error text as destination and the
\* status and progress of the backend job; if the pipeline lookup of
\* getOutputFiles fails as well, JobStatus returns that error and no status.
C18_DestinationFailureDegrades ==
    (DestinationLookupFailed /\ call.fault # "aws:readJob")
        => /\ getOutputFiles(call.fault) = NoErr
                => /\ call.out.err = NoErr
                   /\ call.out.status.Destination = "aws: ReadPipeline failed"
                   /\ call.out.status.Status = statusMap(call.awsJob.Status)
           /\ getOutputFiles(call.fault) # NoErr
                => /\ call.out.err = getOutputFiles(call.fault)
                   /\ call.out.status = NilStatus

\* C18 witness: only the lookup of getOutputDestination failed and JobStatus
\* returned the status with the error text as destination.
C18_Witness ==
    /\ call.op = "JobStatus" /\ call.fault = "aws:readPipeline:destination"
    /\ call.out.err = NoErr
    /\ call.out.status.Destination = "aws: ReadPipeline failed"

\* C15: for a source s3://<bucket>/<key> the provider submits <key>, the text
\* after the first "/" that follows the scheme; a source that does not start
\* with s3:// it submits unchanged.
C15_SourceNormalized ==
    call.op = "normalizeSource"
        => LET source == call.source
               rest == SubSeq(source, Len(S3Scheme) + 1, Len(source))
           IN  /\ HasPrefix(source, S3Scheme)
                    => \A k \in 1..Len(rest) :
                        (rest[k] = "/" /\ \A j \in 1..(k - 1) : rest[j] # "/")
                            => call.out = SubSeq(rest, k + 1, Len(rest))
               /\ ~HasPrefix(source, S3Scheme) => call.out = source

\* C15 witness: s3://b/k/ was submitted as k/.
C15_Witness ==
    /\ call.op = "normalizeSource"
    /\ call.source = S3Scheme \o <<"b", "/", "k", "/">>
    /\ call.out = <<"k", "/">>

\* Where the file extension of name starts: at the last dot of its last path
\* element; 0 when that element has no dot.
ExtensionStart(name) ==
    LET dots == { i \in 1..Len(name) :
                    name[i] = "." /\ \A k \in i..Len(name) : name[k] # "/" }
    IN  IF dots = {} THEN 0 ELSE CHOOSE i \in dots : \A k \in dots : k <= i

\* name with exactly its file extension removed.
WithoutExtension(name) ==
    IF ExtensionStart(name) = 0 THEN name ELSE SubSeq(name, 1, ExtensionStart(name) - 1)

\* C16: the output key is <jobID>/<fileName>; for an adaptive-streaming output
\* the file name loses exactly its extension and keeps the rest, for any other
\* output it is kept in full.
C16_OutputKey ==
    call.op = "outputKey"
        => call.out = call.job.ID \o <<"/">> \o
                        (IF call.adaptive THEN WithoutExtension(call.fileName)
                         ELSE call.fileName)

\* Output i of the profile goes to an adaptive-streaming preset (container ts).
IsAdaptive(output) == PresetContainers[output.Preset.ProviderMapping[Name]] = "ts"

\* The keys, in order, that the request gives the adaptive outputs of the profile.
RECURSIVE AdaptiveKeys(_, _, _)
AdaptiveKeys(sent, outputs, i) ==
    IF i > Len(outputs) THEN <<>>
    ELSE (IF IsAdaptive(outputs[i]) THEN <<sent[i].Key>> ELSE <<>>)
            \o AdaptiveKeys(sent, outputs, i + 1)

\* C17: the request sent to the backend has a playlist if and only if an output
\* of the profile has a preset of container ts; it is then the only playlist,
\* of format HLSv3, named <jobID>/<playlist file name without its extension>,
\* and its output keys are the keys of the request's adaptive outputs, in
\* their order, and no others.
C17_PlaylistGroupsAdaptiveOutputs ==
    (call.op = "Transcode" /\ call.out.err = NoErr)
        => LET outputs == call.transcodeProfile.Outputs
               params == call.out.params
               adaptive == { i \in 1..Len(outputs) : IsAdaptive(outputs[i]) }
           IN  /\ Len(params.Outputs) = Len(outputs)
               /\ Len(params.Playlists) <= 1
               /\ Len(params.Playlists) = 1 <=> adaptive # {}
               /\ adaptive # {}
                    => LET playlist == params.Playlists[1] IN
                       /\ playlist.Format = "HLSv3"
                       /\ playlist.Name =
                            call.job.ID \o <<"/">> \o
                            WithoutExtension(call.transcodeProfile.StreamingParams.PlaylistFileName)
                       /\ playlist.OutputKeys = AdaptiveKeys(params.Outputs, outputs, 1)
                       /\ Len(playlist.OutputKeys) = Cardinality(adaptive)

\* A non-negative integer in decimal: digits, with no leading zero.
IsNatural(str) ==
    /\ Len(str) > 0
    /\ \A i \in 1..Len(str) : str[i] \in Digits
    /\ Len(str) > 1 => Head(str) # "0"

\* floor(b / 1000) of the non-negative integer b, both in decimal: b without
\* its last three digits.
FloorOfThousandth(b) ==
    IF Len(b) <= 3 THEN <<"0">> ELSE SubSeq(b, 1, Len(b) - 3)

\* C20: preset construction submits, for the video and for the audio bit rate,
\* floor(b / 1000) of every non-negative integer bit rate b.
C20_BitrateTruncated ==
    call.op = "CreatePreset"
        => /\ IsNatural(call.preset.Video.Bitrate)
                => call.out.presetInput.Video.BitRate
                       = FloorOfThousandth(call.preset.Video.Bitrate)
           /\ IsNatural(call.preset.Audio.Bitrate)
                => call.out.presetInput.Audio.BitRate
                       = FloorOfThousandth(call.preset.Audio.Bitrate)

\* The same for the bit rates an int can hold: the submitted number q is the
\* one with 1000 * q <= b < 1000 * (q + 1).
BitrateTruncatedWithinInt ==
    call.op = "CreatePreset"
        => \A side \in {"Video", "Audio"} :
            LET b == call.preset[side].Bitrate
                q == call.out.presetInput[side].BitRate
            IN  (IsNatural(b) /\ ~Exceeds(b, MaxIntDigits))
                    => /\ IsNatural(q)
                       /\ q = FloorOfThousandth(b)
                       /\ 1000 * NumeralValue(q) <= NumeralValue(b)
                       /\ NumeralValue(b) - 1000 * NumeralValue(q) < 1000

\* A bit rate just under a multiple of 1000 has been converted.
BitrateTruncatedWithinIntWitness ==
    /\ call.op = "CreatePreset"
    /\ call.preset.Video.Bitrate = <<"1", "9", "9", "9">>
    /\ call.out.presetInput.Video.BitRate = <<"1">>

====
